---------------------------- MODULE Spec2Model ----------------------------
(***************************************************************************)
(* claude-tokenizer: the Normalization Gateway (POST /api,                 *)
(* src/app/api/route.ts, the handler of lines 103-295) and the Client      *)
(* Input Controller (TokenizerInput, src/components/tokenComponents.tsx).  *)
(*                                                                         *)
(* Conventions.  A JS string is the sequence of its UTF-16 code units, a   *)
(* Uint8Array the sequence of its bytes.  A value of type `number | null`  *)
(* is a sequence of length <= 1: Null is <<>>, the number n is <<n>>.  A   *)
(* JS object is a function from its keys; a key that is not in its DOMAIN  *)
(* reads as undefined.  A call that can throw returns [threw, value,       *)
(* calls]: calls is the sequence of vendor calls it made.                  *)
(***************************************************************************)
EXTENDS Integers, Sequences, FiniteSets, TLC

VARIABLES
    \* ---- gateway process (route.ts) ----
    anthropicKey,   \* process.env.ANTHROPIC_API_KEY is set
    geminiKey,      \* process.env.GEMINI_API_KEY is set
    gwPc,           \* "load" | "failed" | "idle" | "handling" | "done"
    gwReq,          \* the request being handled (NoReq when none)
    gwEnv,          \* what the vendors answer during this request
    gwResp,         \* the response to the last handled request (NoResp when none)
    gwCalls,        \* the vendor calls the last handled request made, in order
    gwServed,       \* history: a response has been sent since the module loaded
    \* ---- client (TokenizerInput, tokenComponents.tsx) ----
    text,           \* useState(''): the textarea's text
    file,           \* useState<File | null>(null)
    fileType,       \* useState('unknown')
    filePreview,    \* useState<string | null>(null): a data URL
    selectedModel,  \* useState(CLAUDE_MODELS[0].id)
    stats,          \* the displayed metrics
    error,          \* useState<string | null>(null)
    isProcessing,   \* useState(false)
    timers,         \* pending setTimeout callbacks of debounce, oldest first
    inflight,       \* fetch('/api') requests not yet settled, oldest first
    readers,        \* files a FileReader is still reading
    inputs          \* how many inputs the user has made

gwVars == <<anthropicKey, geminiKey, gwPc, gwReq, gwEnv, gwResp, gwCalls,
            gwServed>>

clVars == <<text, file, fileType, filePreview, selectedModel, stats, error,
            isProcessing, timers, inflight, readers, inputs>>

vars == <<gwVars, clVars>>

(***************************************************************************)
(* Bounds of the model.                                                    *)
(***************************************************************************)
MaxFileLen == 2     \* longest uploaded file, in bytes
MaxTextLen == 2     \* longest typed text, in UTF-16 code units
MaxTimers == 2      \* most debounce timers pending at once
MaxInFlight == 2    \* most requests in flight at once
DebounceTicks == 2  \* clock ticks that make up the debounce delay
MaxInputs == 4      \* most inputs (edits, selections, clicks) the user makes

(***************************************************************************)
(* number | null                                                           *)
(***************************************************************************)
Null == <<>>
Num(n) == <<n>>

\* All sequences over S of length at most n.
SeqsUpTo(S, n) == UNION {[1..k -> S] : k \in 0..n}

(***************************************************************************)
(* Input alphabets.  Bytes: 'a', ' ', and the two bytes of U+00E9 (a lead  *)
(* byte and a continuation byte, so that well-formed two-byte characters,  *)
(* truncated ones and stray continuation bytes all occur).  Typed text:    *)
(* 'a' and ' '.                                                            *)
(***************************************************************************)
FileBytes == {97, 32, 195, 169}
TextUnits == {97, 32}
\* "Hello, world!"
HelloWorld == <<72, 101, 108, 108, 111, 44, 32, 119, 111, 114, 108, 100, 33>>

FileContents == SeqsUpTo(FileBytes, MaxFileLen)
Texts == SeqsUpTo(TextUnits, MaxTextLen) \cup {HelloWorld}

(***************************************************************************)
(* new TextDecoder().decode(bytes): the WHATWG UTF-8 decoder (replacement  *)
(* error mode, BOM stripped), giving UTF-16 code units.                    *)
(***************************************************************************)
CodeUnits(cp) ==
    IF cp < 65536 THEN <<cp>>
    ELSE <<55296 + ((cp - 65536) \div 1024), 56320 + ((cp - 65536) % 1024)>>

RECURSIVE Utf8Run(_, _, _, _, _, _, _)
Utf8Run(bytes, i, cp, needed, seen, lower, upper) ==
    IF i > Len(bytes) THEN (IF needed # 0 THEN <<65533>> ELSE <<>>)
    ELSE LET b == bytes[i] IN
      IF needed = 0 THEN
        IF b <= 127 THEN <<b>> \o Utf8Run(bytes, i + 1, 0, 0, 0, 128, 191)
        ELSE IF b >= 194 /\ b <= 223 THEN
            Utf8Run(bytes, i + 1, b - 192, 1, 0, 128, 191)
        ELSE IF b >= 224 /\ b <= 239 THEN
            Utf8Run(bytes, i + 1, b - 224, 2, 0,
                    IF b = 224 THEN 160 ELSE 128, IF b = 237 THEN 159 ELSE 191)
        ELSE IF b >= 240 /\ b <= 244 THEN
            Utf8Run(bytes, i + 1, b - 240, 3, 0,
                    IF b = 240 THEN 144 ELSE 128, IF b = 244 THEN 143 ELSE 191)
        ELSE <<65533>> \o Utf8Run(bytes, i + 1, 0, 0, 0, 128, 191)
      ELSE IF b < lower \/ b > upper THEN
        \* the byte is not consumed: it is decoded again as a first byte
        <<65533>> \o Utf8Run(bytes, i, 0, 0, 0, 128, 191)
      ELSE LET cp2 == cp * 64 + (b - 128) IN
        IF seen + 1 = needed
        THEN CodeUnits(cp2) \o Utf8Run(bytes, i + 1, 0, 0, 0, 128, 191)
        ELSE Utf8Run(bytes, i + 1, cp2, needed, seen + 1, 128, 191)

TextDecoderDecode(bytes) ==
    LET s == Utf8Run(bytes, 1, 0, 0, 0, 128, 191)
    IN  IF Len(s) > 0 /\ s[1] = 65279 THEN Tail(s) ELSE s

(***************************************************************************)
(* Buffer.from(bytes).toString('base64'): the sequence of base64 digits    *)
(* 0..63, with 64 for the padding '='.                                     *)
(***************************************************************************)
RECURSIVE Base64(_)
Base64(bytes) ==
    IF Len(bytes) = 0 THEN <<>>
    ELSE IF Len(bytes) = 1 THEN
        <<bytes[1] \div 4, (bytes[1] % 4) * 16, 64, 64>>
    ELSE IF Len(bytes) = 2 THEN
        <<bytes[1] \div 4, (bytes[1] % 4) * 16 + (bytes[2] \div 16),
          (bytes[2] % 16) * 4, 64>>
    ELSE
        <<bytes[1] \div 4, (bytes[1] % 4) * 16 + (bytes[2] \div 16),
          (bytes[2] % 16) * 4 + (bytes[3] \div 64), bytes[3] % 64>>
        \o Base64(SubSeq(bytes, 4, Len(bytes)))


(***************************************************************************)
(* Strings that the code inspects (media types, file names) are sequences  *)
(* of one-character strings.                                               *)
(***************************************************************************)
StartsWith(s, p) == Len(p) <= Len(s) /\ SubSeq(s, 1, Len(p)) = p
EndsWith(s, p) == Len(p) <= Len(s) /\ SubSeq(s, Len(s) - Len(p) + 1, Len(s)) = p
Includes(s, p) == \E i \in 0..(Len(s) - Len(p)) : SubSeq(s, i + 1, i + Len(p)) = p

ApplicationPdf == <<"a","p","p","l","i","c","a","t","i","o","n","/","p","d","f">>
ImagePng == <<"i","m","a","g","e","/","p","n","g">>
ImageGif == <<"i","m","a","g","e","/","g","i","f">>
ImageWebp == <<"i","m","a","g","e","/","w","e","b","p">>
ImageJpeg == <<"i","m","a","g","e","/","j","p","e","g">>
ImageBmp == <<"i","m","a","g","e","/","b","m","p">>
TextPlain == <<"t","e","x","t","/","p","l","a","i","n">>
OctetStream == <<"a","p","p","l","i","c","a","t","i","o","n","/",
                 "o","c","t","e","t","-","s","t","r","e","a","m">>

(***************************************************************************)
(* The File objects of the model: a name, a media type (file.type) and the *)
(* bytes.  A .md file comes with an empty media type.                      *)
(***************************************************************************)
FileKinds ==
    { [name |-> <<"d",".","p","d","f">>, type |-> ApplicationPdf],
      [name |-> <<"p",".","p","n","g">>, type |-> ImagePng],
      [name |-> <<"t",".","t","x","t">>, type |-> TextPlain],
      [name |-> <<"n",".","m","d">>,     type |-> <<>>],
      [name |-> <<"x",".","b","i","n">>, type |-> OctetStream] }

Files ==
    { [name |-> k.name, type |-> k.type, content |-> c] :
        k \in FileKinds, c \in FileContents }

(***************************************************************************)
(* Model identifiers (CLAUDE_MODELS, the first and the third) and the      *)
(* gateway's default.                                                      *)
(***************************************************************************)
DEFAULT_MODEL == "claude-3-7-sonnet-20250219"
ModelIds == {"claude-3-7-sonnet-20250219", "claude-3-5-haiku-20241022"}

(***************************************************************************)
(* Requests to POST /api.  multipart: the content-type header includes     *)
(* 'multipart/form-data'.  parses: req.formData() / req.json() returns     *)
(* (it throws on a body it cannot parse).  body: the parsed form fields or *)
(* JSON object; a field may be absent.  JSON.stringify / req.json() carry  *)
(* a string unchanged, so the body holds the text itself.                  *)
(***************************************************************************)
EmptyObj == [k \in {} |-> Null]
Field(k, v, present) == IF present THEN k :> v ELSE EmptyObj
FileTypes == {"image", "pdf", "text", "unknown"}

JsonBodies ==
    { Field("text", t, ht) @@ Field("model", m, hm) :
        t \in Texts, ht \in BOOLEAN, m \in ModelIds, hm \in BOOLEAN }
FormBodies ==
    { Field("file", f, hf) @@ Field("model", m, hm) @@ Field("fileType", ft, hft) :
        f \in Files, hf \in BOOLEAN, m \in ModelIds, hm \in BOOLEAN,
        ft \in FileTypes, hft \in BOOLEAN }

Requests ==
    { [multipart |-> FALSE, parses |-> TRUE, body |-> b] : b \in JsonBodies }
    \cup { [multipart |-> TRUE, parses |-> TRUE, body |-> b] : b \in FormBodies }
    \cup { [multipart |-> mp, parses |-> FALSE, body |-> EmptyObj] : mp \in BOOLEAN }

(***************************************************************************)
(* What the vendors answer during one request.  The vendors are black      *)
(* boxes: a call throws or returns.  The primary count object may carry    *)
(* fields beside input_tokens, also ones named like the gateway's own.     *)
(***************************************************************************)
Throws == [threw |-> TRUE, value |-> Null]
Returns(v) == [threw |-> FALSE, value |-> v]

PlainCount(n) == [input_tokens |-> n]
EchoCount(n) ==
    [input_tokens |-> n, model |-> "vendor-echo", fileChars |-> 77,
     gpt4oTokens |-> Num(55), geminiTokens |-> Num(66)]

AnthropicAnswers == {Throws, Returns(PlainCount(5)), Returns(EchoCount(9))}
Gpt4oAnswers == {Throws, Returns(2)}
GeminiAnswers == {Throws, Returns([totalTokens |-> 3])}

Envs == [anthropic : AnthropicAnswers, gpt4o : Gpt4oAnswers, gemini : GeminiAnswers]

(***************************************************************************)
(* The vendor calls.  Each returns [threw, value, calls].                  *)
(***************************************************************************)
Called(answer, call) ==
    [threw |-> answer.threw, value |-> answer.value, calls |-> <<call>>]

\* anthropic.beta.messages.countTokens({betas, model, messages: [{role, content}]})
AnthropicCountTokens(betas, model, content, env) ==
    Called(env.anthropic,
           [vendor |-> "anthropic", betas |-> betas, model |-> model,
            content |-> content])

\* encodingForModel('gpt-4o').encode(text).length
Gpt4oEncodeLength(txt, env) ==
    Called(env.gpt4o, [vendor |-> "gpt4o", text |-> txt])

\* genAI.getGenerativeModel({model: "gemini-1.5-flash"}).countTokens({contents})
GeminiCountTokens(txt, env) ==
    Called(env.gemini, [vendor |-> "gemini", text |-> txt])

(***************************************************************************)
(* getGPT4oTokenCount, getGeminiTokenCount: a failure becomes null.        *)
(***************************************************************************)
\* mutant: the encoder's exception is not caught
getGPT4oTokenCount_NoCatch(txt, env) ==
    LET r == Gpt4oEncodeLength(txt, env)
    IN  [threw |-> r.threw,
         value |-> IF r.threw THEN Null ELSE Num(r.value),
         calls |-> r.calls]

getGPT4oTokenCount(txt, env) ==
    LET r == Gpt4oEncodeLength(txt, env)
    IN  IF r.threw
        THEN [threw |-> FALSE, value |-> Null, calls |-> r.calls]
        ELSE [threw |-> FALSE, value |-> Num(r.value), calls |-> r.calls]

\* mutant: the credential is not checked before the call
getGeminiTokenCount_NoKeyCheck(txt, env) ==
    LET r == GeminiCountTokens(txt, env)
    IN  IF r.threw
        THEN [threw |-> FALSE, value |-> Null, calls |-> r.calls]
        ELSE [threw |-> FALSE, value |-> Num(r.value.totalTokens),
              calls |-> r.calls]

getGeminiTokenCount(txt, env) ==
    IF ~geminiKey
    THEN [threw |-> FALSE, value |-> Null, calls |-> <<>>]
    ELSE LET r == GeminiCountTokens(txt, env)
         IN  IF r.threw
             THEN [threw |-> FALSE, value |-> Null, calls |-> r.calls]
             ELSE [threw |-> FALSE, value |-> Num(r.value.totalTokens),
                   calls |-> r.calls]

(***************************************************************************)
(* The pieces of POST.                                                     *)
(***************************************************************************)
\* formData.get(k): the field, or null
FormDataGet(formData, k) ==
    IF k \in DOMAIN formData THEN <<formData[k]>> ELSE Null

\* the catch block: every exception of the handler ends here
Caught(calls) ==
    [status |-> 500, body |-> [error |-> "Failed to count tokens"], calls |-> calls]

\* mutant: the spread written last, so that the vendor's fields win
ResponseJson_SpreadLast(count, fileChars, model, gpt4oTokens, geminiTokens) ==
    LET own == [fileChars |-> fileChars, model |-> model,
                gpt4oTokens |-> gpt4oTokens, geminiTokens |-> geminiTokens]
    IN  [k \in DOMAIN count \cup DOMAIN own |->
            IF k \in DOMAIN count THEN count[k] ELSE own[k]]

\* Response.json({...count, fileChars, model, gpt4oTokens, geminiTokens}):
\* the keys written after the spread replace those of count
ResponseJson(count, fileChars, model, gpt4oTokens, geminiTokens) ==
    LET own == [fileChars |-> fileChars, model |-> model,
                gpt4oTokens |-> gpt4oTokens, geminiTokens |-> geminiTokens]
    IN  [k \in DOMAIN count \cup DOMAIN own |->
            IF k \in DOMAIN own THEN own[k] ELSE count[k]]

\* mutant: the length of the decoded text
FileChars_Decoded(fileContent) == Len(TextDecoderDecode(fileContent))

\* fileChars = fileContent.length, set before the branch on fileType
FileChars(fileContent) == Len(fileContent)

\* mutant: the branch chosen by the file's own media type
FileBranch_ByMediaType(ftype, fl) ==
    IF fl.type = ApplicationPdf THEN "pdf"
    ELSE IF StartsWith(fl.type, <<"i","m","a","g","e","/">>) THEN "image"
    ELSE "text"

\* mutant: an unknown or absent fileType decided by the file's media type
FileBranch_FallsBackToMediaType(ftype, fl) ==
    IF ftype = <<"pdf">> THEN "pdf"
    ELSE IF ftype = <<"image">> THEN "image"
    ELSE IF ftype = <<"text">> THEN "text"
    ELSE IF fl.type = ApplicationPdf THEN "pdf"
    ELSE IF StartsWith(fl.type, <<"i","m","a","g","e","/">>) THEN "image"
    ELSE "text"
\* which branch a multipart request with a file takes
FileBranch(ftype, fl) ==
    IF ftype = <<"pdf">> THEN "pdf"
    ELSE IF ftype = <<"image">> THEN "image"
    ELSE "text"

\* the media type sent with an image block
ImageMediaType(fl) ==
    IF fl.type = ImagePng THEN ImagePng
    ELSE IF fl.type = ImageGif THEN ImageGif
    ELSE IF fl.type = ImageWebp THEN ImageWebp
    ELSE ImageJpeg

\* mutant: a failed primary call answered with what is known so far
CountAndRespond_Partial(betas, content, fileChars, model, gpt4o, gemini, calls, env) ==
    LET count == AnthropicCountTokens(betas, model, content, env)
    IN  IF count.threw
        THEN [status |-> 500,
              body |-> [error |-> "Failed to count tokens",
                        fileChars |-> fileChars, model |-> model,
                        gpt4oTokens |-> gpt4o,
                        geminiTokens |-> gemini],
              calls |-> calls \o count.calls]
        ELSE [status |-> 200,
              body |-> ResponseJson(count.value, fileChars, model,
                                    gpt4o, gemini),
              calls |-> calls \o count.calls]

\* one primary call and the response built from it
CountAndRespond(betas, content, fileChars, model, gpt4o, gemini, calls, env) ==
    LET count == AnthropicCountTokens(betas, model, content, env)
    IN  IF count.threw
        THEN Caught(calls \o count.calls)
        ELSE [status |-> 200,
              body |-> ResponseJson(count.value, fileChars, model,
                                    gpt4o, gemini),
              calls |-> calls \o count.calls]

\* mutant: the empty text answered at once, without any vendor call
SecondaryThenCount_ShortCircuit(txt, fileChars, model, env) ==
    IF txt = <<>>
    THEN [status |-> 200,
          body |-> ResponseJson(PlainCount(0), fileChars, model, Null, Null),
          calls |-> <<>>]
    ELSE LET g == getGPT4oTokenCount(txt, env)
             m == getGeminiTokenCount(txt, env)
         IN  CountAndRespond({"token-counting-2024-11-01"},
                             [type |-> "text", text |-> txt],
                             fileChars, model, g.value, m.value,
                             g.calls \o m.calls, env)

\* mutant: the primary call issued before the secondary counts
SecondaryThenCount_PrimaryFirst(txt, fileChars, model, env) ==
    LET g == getGPT4oTokenCount(txt, env)
        m == getGeminiTokenCount(txt, env)
        r == CountAndRespond({"token-counting-2024-11-01"},
                             [type |-> "text", text |-> txt],
                             fileChars, model, g.value, m.value, <<>>, env)
    IN  [r EXCEPT !.calls = r.calls \o g.calls \o m.calls]
\* gpt4oTokens = await getGPT4oTokenCount(text);
\* geminiTokens = await getGeminiTokenCount(text);
\* and then the text call of the end of the handler
SecondaryThenCount(txt, fileChars, model, env) ==
    LET g == getGPT4oTokenCount(txt, env)
    IN  IF g.threw THEN Caught(g.calls)
        ELSE LET m == getGeminiTokenCount(txt, env)
             IN  IF m.threw THEN Caught(g.calls \o m.calls)
                 ELSE CountAndRespond({"token-counting-2024-11-01"},
                                      [type |-> "text", text |-> txt],
                                      fileChars, model, g.value, m.value,
                                      g.calls \o m.calls, env)

(***************************************************************************)
(* POST(req): the response and the vendor calls made, in order.            *)
(***************************************************************************)
POST(req, env) ==
    IF ~req.parses THEN Caught(<<>>)
    ELSE IF req.multipart THEN
        LET formData == req.body
            fl == FormDataGet(formData, "file")
            formModel == FormDataGet(formData, "model")
            ftype == FormDataGet(formData, "fileType")
            model == IF formModel # Null /\ formModel[1] # ""
                     THEN formModel[1] ELSE DEFAULT_MODEL
        IN  IF fl # Null THEN
                LET fileContent == fl[1].content
                    fileChars == FileChars(fileContent)
                    branch == FileBranch(ftype, fl[1])
                IN  IF branch = "pdf" THEN
                        CountAndRespond(
                            {"token-counting-2024-11-01", "pdfs-2024-09-25"},
                            [type |-> "document", media_type |-> ApplicationPdf,
                             data |-> Base64(fileContent)],
                            fileChars, model, Null, Null, <<>>, env)
                    ELSE IF branch = "image" THEN
                        CountAndRespond(
                            {"token-counting-2024-11-01"},
                            [type |-> "image", media_type |-> ImageMediaType(fl[1]),
                             data |-> Base64(fileContent)],
                            fileChars, model, Null, Null, <<>>, env)
                    ELSE
                        SecondaryThenCount(TextDecoderDecode(fileContent),
                                           fileChars, model, env)
            ELSE
                \* no file: text = '', fileChars = 0, no secondary counts
                CountAndRespond({"token-counting-2024-11-01"},
                                [type |-> "text", text |-> <<>>],
                                0, model, Null, Null, <<>>, env)
    ELSE
        LET jsonData == req.body
            txt == IF "text" \in DOMAIN jsonData THEN jsonData.text ELSE <<>>
            model == IF "model" \in DOMAIN jsonData /\ jsonData.model # ""
                     THEN jsonData.model ELSE DEFAULT_MODEL
        IN  SecondaryThenCount(txt, 0, model, env)

(***************************************************************************)
(* The gateway process.                                                    *)
(***************************************************************************)
NoReq == [multipart |-> FALSE, parses |-> FALSE, body |-> EmptyObj]
NoEnv == [anthropic |-> Throws, gpt4o |-> Throws, gemini |-> Throws]
NoResp == [status |-> 0, body |-> EmptyObj]

\* the client as mounted: the useState initial values, nothing pending
EmptyStats ==
    [tokens |-> Null, gpt4oTokens |-> Null, geminiTokens |-> Null, chars |-> 0,
     fileName |-> Null]

ClMounted ==
    /\ text = <<>>
    /\ file = Null
    /\ fileType = "unknown"
    /\ filePreview = Null
    /\ selectedModel = DEFAULT_MODEL
    /\ stats = EmptyStats
    /\ error = Null
    /\ isProcessing = FALSE
    /\ timers = <<>>
    /\ inflight = <<>>
    /\ readers = {}
    /\ inputs = 0

GwInit ==
    /\ anthropicKey \in BOOLEAN
    /\ geminiKey \in BOOLEAN
    /\ gwPc = "load"
    /\ gwReq = NoReq
    /\ gwEnv = NoEnv
    /\ gwResp = NoResp
    /\ gwCalls = <<>>
    /\ gwServed = FALSE
    /\ ClMounted

\* mutant: the module loads whatever the credentials
ModuleLoad_NoCheck ==
    /\ gwPc = "load"
    /\ gwPc' = "idle"
    /\ UNCHANGED <<anthropicKey, geminiKey, gwReq, gwEnv, gwResp, gwCalls,
                   gwServed>>
    /\ UNCHANGED clVars

\* loading the route module: it throws without ANTHROPIC_API_KEY, and only
\* warns without GEMINI_API_KEY
ModuleLoad ==
    /\ gwPc = "load"
    /\ gwPc' = IF anthropicKey THEN "idle" ELSE "failed"
    /\ UNCHANGED <<anthropicKey, geminiKey, gwReq, gwEnv, gwResp, gwCalls,
                   gwServed>>
    /\ UNCHANGED clVars

\* a request arrives
GwReceive ==
    /\ gwPc = "idle"
    /\ \E req \in Requests, env \in Envs :
          /\ gwReq' = req
          /\ gwEnv' = env
    /\ gwPc' = "handling"
    /\ gwResp' = NoResp
    /\ gwCalls' = <<>>
    /\ UNCHANGED <<anthropicKey, geminiKey, gwServed>>
    /\ UNCHANGED clVars

\* POST runs to its response
GwHandle ==
    /\ gwPc = "handling"
    /\ LET r == POST(gwReq, gwEnv)
       IN  /\ gwResp' = [status |-> r.status, body |-> r.body]
           /\ gwCalls' = r.calls
    /\ gwPc' = "done"
    /\ UNCHANGED <<anthropicKey, geminiKey, gwReq, gwEnv, gwServed>>
    /\ UNCHANGED clVars

\* mutant: the calls of the request are kept in module scope
GwRespond_KeepsCalls ==
    /\ gwPc = "done"
    /\ gwPc' = "idle"
    /\ gwReq' = NoReq
    /\ gwEnv' = NoEnv
    /\ gwResp' = NoResp
    /\ gwServed' = TRUE
    /\ UNCHANGED <<anthropicKey, geminiKey, gwCalls>>
    /\ UNCHANGED clVars

\* the response is sent: nothing of the request is kept
GwRespond ==
    /\ gwPc = "done"
    /\ gwPc' = "idle"
    /\ gwReq' = NoReq
    /\ gwEnv' = NoEnv
    /\ gwResp' = NoResp
    /\ gwCalls' = <<>>
    /\ gwServed' = TRUE
    /\ UNCHANGED <<anthropicKey, geminiKey>>
    /\ UNCHANGED clVars

GwNext == ModuleLoad \/ GwReceive \/ GwHandle \/ GwRespond

SpecGateway == GwInit /\ [][GwNext]_vars

(***************************************************************************)
(* The client: TokenizerInput.                                             *)
(***************************************************************************)
\* the files the user can pick: one of each kind, each holding the two bytes
\* of the single character U+00E9
ClientFiles == {f \in Files : f.content = <<195, 169>>}

\* the texts the user can type or paste: '', ' ', 'a', 'Hello, world!'
ClientTexts == {<<>>, <<32>>, <<97>>, HelloWorld}

\* what the vendors answer to the client's requests: the secondary vendors
\* answer, the primary one throws or returns
ClientEnvs == {e \in Envs : ~e.gpt4o.threw /\ ~e.gemini.threw}

\* String.prototype.trim: white space and line terminators are stripped
WhiteSpace ==
    {9, 10, 11, 12, 13, 32, 160, 5760, 8232, 8233, 8239, 8287, 12288, 65279}
    \cup 8192..8202
RECURSIVE TrimStart(_)
TrimStart(s) ==
    IF s # <<>> /\ Head(s) \in WhiteSpace THEN TrimStart(Tail(s)) ELSE s
RECURSIVE TrimEnd(_)
TrimEnd(s) ==
    IF s # <<>> /\ s[Len(s)] \in WhiteSpace
    THEN TrimEnd(SubSeq(s, 1, Len(s) - 1)) ELSE s
Trim(s) == TrimEnd(TrimStart(s))

getFileTypeCategory(f) ==
    IF StartsWith(f.type, <<"i","m","a","g","e","/">>) THEN "image"
    ELSE IF f.type = ApplicationPdf THEN "pdf"
    ELSE IF \/ Includes(f.type, <<"t","e","x","t">>)
            \/ Includes(f.type, <<"j","a","v","a","s","c","r","i","p","t">>)
            \/ Includes(f.type, <<"j","s","o","n">>)
            \/ Includes(f.type, <<"h","t","m","l">>)
            \/ Includes(f.type, <<"c","s","s">>)
            \/ EndsWith(f.name, <<".","m","d">>)
            \/ EndsWith(f.name, <<".","c","s","v">>) THEN "text"
    ELSE "unknown"

\* reader.readAsDataURL(file): data:<type>;base64,<data>
DataUrl(f) == [mediaType |-> f.type, base64 |-> Base64(f.content)]

\* the requests fetch('/api') sends
TextRequest(t, m) ==
    [multipart |-> FALSE, parses |-> TRUE, body |-> [text |-> t, model |-> m]]
\* mutant: the file is sent with the model of the first render
FileRequest_FirstModel(f, m, ft) ==
    [multipart |-> TRUE, parses |-> TRUE,
     body |-> [file |-> f, model |-> DEFAULT_MODEL, fileType |-> ft]]
FileRequest(f, m, ft) ==
    [multipart |-> TRUE, parses |-> TRUE,
     body |-> [file |-> f, model |-> m, fileType |-> ft]]

\* mutant: the pending timeout is not cleared
debounce_NoClear(ts, t, m) ==
    ts \o <<[text |-> t, model |-> m, due |-> DebounceTicks, cur |-> TRUE]>>

\* debounce(func, delay): the call clears this instance's pending timeout and
\* sets a new one.  cur marks the timer of the current debounced function.
debounce(ts, t, m) ==
    SelectSeq(ts, LAMBDA x : ~x.cur)
    \o <<[text |-> t, model |-> m, due |-> DebounceTicks, cur |-> TRUE]>>

\* useCallback(debounce(handleAnalyzeText, 300), [selectedModel]): a change of
\* selectedModel makes a new debounced function; the timer of the old one
\* stays set
NewDebounced(ts) == [i \in 1..Len(ts) |-> [ts[i] EXCEPT !.cur = FALSE]]

\* useEffect(..., [text, debouncedHandleAnalyzeText, file])
Effect(ts, f, t, m) == IF f = Null /\ t # <<>> THEN debounce(ts, t, m) ELSE ts

\* mutant: the overhead is subtracted without the floor
DisplayTokens_NoFloor(data) ==
    IF "input_tokens" \in DOMAIN data
    THEN Num(data.input_tokens - 7) ELSE Num(0)
\* tokens: data.input_tokens > 7 ? data.input_tokens - 7 : 0
DisplayTokens(data) ==
    IF "input_tokens" \in DOMAIN data /\ data.input_tokens > 7
    THEN Num(data.input_tokens - 7) ELSE Num(0)

\* mutant: chars read from the response, as handleAnalyzeFile does
TextStatsOnSuccess_FromResponse(data, t) ==
    [tokens |-> DisplayTokens(data), gpt4oTokens |-> data.gpt4oTokens,
     geminiTokens |-> data.geminiTokens,
     chars |-> IF "fileChars" \in DOMAIN data THEN data.fileChars ELSE 0,
     fileName |-> Null]

\* handleAnalyzeText: setStats after response.json()
TextStatsOnSuccess(data, t) ==
    [tokens |-> DisplayTokens(data), gpt4oTokens |-> data.gpt4oTokens,
     geminiTokens |-> data.geminiTokens, chars |-> Len(t), fileName |-> Null]
\* mutant: chars reset like the counts
TextStatsOnFailure_Reset(t) ==
    [tokens |-> Null, gpt4oTokens |-> Null, geminiTokens |-> Null,
     chars |-> 0, fileName |-> Null]
\* handleAnalyzeText: setStats in catch
TextStatsOnFailure(t) ==
    [tokens |-> Null, gpt4oTokens |-> Null, geminiTokens |-> Null,
     chars |-> Len(t), fileName |-> Null]
\* handleAnalyzeFile: setStats after response.json(); chars: data.fileChars || 0
FileStatsOnSuccess(data, f) ==
    [tokens |-> DisplayTokens(data), gpt4oTokens |-> data.gpt4oTokens,
     geminiTokens |-> data.geminiTokens,
     chars |-> IF "fileChars" \in DOMAIN data THEN data.fileChars ELSE 0,
     fileName |-> <<f.name>>]

\* one more input of the user
UserInput == inputs < MaxInputs /\ inputs' = inputs + 1

\* textarea onChange: setText(e.target.value).  The textarea is rendered only
\* without a file and is disabled while isProcessing.
SetText(t) ==
    /\ UNCHANGED gwVars
    /\ UserInput
    /\ file = Null /\ ~isProcessing
    /\ t # text
    /\ text' = t
    /\ timers' = Effect(timers, file, t, selectedModel)
    /\ Len(timers') <= MaxTimers
    /\ UNCHANGED <<file, fileType, filePreview, selectedModel, stats, error,
                   isProcessing, inflight, readers>>

\* mutant: the text is not counted again for the new model
SelectModel_NoRecount(m) ==
    /\ UNCHANGED gwVars
    /\ UserInput
    /\ m # selectedModel
    /\ selectedModel' = m
    /\ timers' = NewDebounced(timers)
    /\ UNCHANGED <<text, file, fileType, filePreview, stats, error,
                   isProcessing, inflight, readers>>

\* selectModel(modelId), for another model than the selected one
SelectModel(m) ==
    /\ UNCHANGED gwVars
    /\ UserInput
    /\ m # selectedModel
    /\ selectedModel' = m
    /\ timers' = Effect(NewDebounced(timers), file, text, m)
    /\ Len(timers') <= MaxTimers
    /\ UNCHANGED <<text, file, fileType, filePreview, stats, error,
                   isProcessing, inflight, readers>>

\* mutant: the typed text is kept
HandleFileChange_KeepsText(f) ==
    /\ UNCHANGED gwVars
    /\ UserInput
    /\ file' = <<f>>
    /\ fileType' = getFileTypeCategory(f)
    /\ stats' = [EmptyStats EXCEPT !.fileName = <<f.name>>]
    /\ IF getFileTypeCategory(f) = "image"
       THEN readers' = readers \cup {f} /\ UNCHANGED filePreview
       ELSE filePreview' = Null /\ UNCHANGED readers
    /\ UNCHANGED <<text, timers, selectedModel, error, isProcessing, inflight>>

\* handleFileChange with a file chosen
HandleFileChange(f) ==
    /\ UNCHANGED gwVars
    /\ UserInput
    /\ file' = <<f>>
    /\ fileType' = getFileTypeCategory(f)
    /\ text' = <<>>
    /\ stats' = [EmptyStats EXCEPT !.fileName = <<f.name>>]
    /\ IF getFileTypeCategory(f) = "image"
       THEN readers' = readers \cup {f} /\ UNCHANGED filePreview
       ELSE filePreview' = Null /\ UNCHANGED readers
    /\ timers' = Effect(timers, <<f>>, <<>>, selectedModel)
    /\ UNCHANGED <<selectedModel, error, isProcessing, inflight>>

\* reader.onload
PreviewLoads(f) ==
    /\ UNCHANGED gwVars
    /\ UNCHANGED inputs
    /\ f \in readers
    /\ readers' = readers \ {f}
    /\ filePreview' = <<DataUrl(f)>>
    /\ UNCHANGED <<text, file, fileType, selectedModel, stats, error,
                   isProcessing, timers, inflight>>

\* the read fails: no handler is set for it
PreviewFails(f) ==
    /\ UNCHANGED gwVars
    /\ UNCHANGED inputs
    /\ f \in readers
    /\ readers' = readers \ {f}
    /\ UNCHANGED <<text, file, fileType, filePreview, selectedModel, stats,
                   error, isProcessing, timers, inflight>>

\* mutant: the displayed metrics are kept
ClearFile_KeepsMetrics ==
    /\ UNCHANGED gwVars
    /\ UserInput
    /\ file # Null
    /\ file' = Null
    /\ fileType' = "unknown"
    /\ filePreview' = Null
    /\ timers' = Effect(timers, Null, text, selectedModel)
    /\ Len(timers') <= MaxTimers
    /\ UNCHANGED <<stats, text, selectedModel, error, isProcessing, inflight,
                   readers>>

\* clearFile: its button is rendered only with a file
ClearFile ==
    /\ UNCHANGED gwVars
    /\ UserInput
    /\ file # Null
    /\ file' = Null
    /\ fileType' = "unknown"
    /\ filePreview' = Null
    /\ stats' = EmptyStats
    /\ timers' = Effect(timers, Null, text, selectedModel)
    /\ Len(timers') <= MaxTimers
    /\ UNCHANGED <<text, selectedModel, error, isProcessing, inflight, readers>>

\* handleAnalyzeFile up to the fetch: the Count Tokens button is rendered
\* only with a file and is disabled while isProcessing
HandleAnalyzeFile ==
    /\ UNCHANGED gwVars
    /\ UserInput
    /\ file # Null /\ ~isProcessing
    /\ Len(inflight) < MaxInFlight
    /\ isProcessing' = TRUE
    /\ inflight' = Append(inflight, FileRequest(file[1], selectedModel, fileType))
    /\ UNCHANGED <<text, file, fileType, filePreview, selectedModel, stats,
                   error, timers, readers>>

\* the oldest timer runs out: handleAnalyzeText(text) up to the fetch, with
\* the selectedModel of the render that made the debounced function
TimerFires ==
    /\ UNCHANGED gwVars
    /\ UNCHANGED inputs
    /\ timers # <<>>
    /\ Head(timers).due = 0
    /\ timers' = Tail(timers)
    /\ IF Trim(Head(timers).text) = <<>>
       THEN /\ stats' = EmptyStats
            /\ error' = Null
            /\ UNCHANGED <<isProcessing, inflight>>
       ELSE /\ Len(inflight) < MaxInFlight
            /\ isProcessing' = TRUE
            /\ inflight' = Append(inflight,
                                  TextRequest(Head(timers).text, Head(timers).model))
            /\ UNCHANGED <<stats, error>>
    /\ UNCHANGED <<text, file, fileType, filePreview, selectedModel, readers>>

\* time passes: one tick closer to every pending timeout
Tick ==
    /\ UNCHANGED gwVars
    /\ UNCHANGED inputs
    /\ timers # <<>>
    /\ \A i \in 1..Len(timers) : timers[i].due > 0
    /\ timers' = [i \in 1..Len(timers) |-> [timers[i] EXCEPT !.due = @ - 1]]
    /\ UNCHANGED <<text, file, fileType, filePreview, selectedModel, stats,
                   error, isProcessing, inflight, readers>>

Without(q, i) == SubSeq(q, 1, i - 1) \o SubSeq(q, i + 1, Len(q))

\* mutant: a success leaves the error message of an earlier failure
Continue_KeepsError(req, ok, data) ==
    /\ IF ~req.multipart
       THEN IF ok
            THEN /\ stats' = TextStatsOnSuccess(data, req.body.text)
                 /\ error' = error
            ELSE /\ error' = <<"Failed to analyze text. Please try again.">>
                 /\ stats' = TextStatsOnFailure(req.body.text)
       ELSE IF ok
            THEN /\ stats' = FileStatsOnSuccess(data, req.body.file)
                 /\ error' = error
            ELSE /\ error' = <<"Failed to analyze file. Please try again.">>
                 /\ stats' = EmptyStats
    /\ isProcessing' = FALSE

\* the rest of handleAnalyzeText / handleAnalyzeFile, from the settled fetch
Continue(req, ok, data) ==
    /\ IF ~req.multipart
       THEN IF ok
            THEN /\ stats' = TextStatsOnSuccess(data, req.body.text)
                 /\ error' = Null
            ELSE /\ error' = <<"Failed to analyze text. Please try again.">>
                 /\ stats' = TextStatsOnFailure(req.body.text)
       ELSE IF ok
            THEN /\ stats' = FileStatsOnSuccess(data, req.body.file)
                 /\ error' = Null
            ELSE /\ error' = <<"Failed to analyze file. Please try again.">>
                 /\ stats' = EmptyStats
    /\ isProcessing' = FALSE

\* request i is served by POST and its response reaches the awaiting handler
FetchSettles(i) ==
    /\ UNCHANGED gwVars
    /\ UNCHANGED inputs
    /\ i \in 1..Len(inflight)
    /\ \E env \in ClientEnvs :
          LET r == POST(inflight[i], env)
          IN  Continue(inflight[i], r.status = 200, r.body)
    /\ inflight' = Without(inflight, i)
    /\ UNCHANGED <<text, file, fileType, filePreview, selectedModel, timers,
                   readers>>

\* request i fails on the network: fetch rejects
FetchRejects(i) ==
    /\ UNCHANGED gwVars
    /\ UNCHANGED inputs
    /\ i \in 1..Len(inflight)
    /\ Continue(inflight[i], FALSE, EmptyObj)
    /\ inflight' = Without(inflight, i)
    /\ UNCHANGED <<text, file, fileType, filePreview, selectedModel, timers,
                   readers>>

\* the route module has loaded; the client is mounted
Init ==
    /\ anthropicKey = TRUE
    /\ geminiKey \in BOOLEAN
    /\ gwPc = "idle"
    /\ gwReq = NoReq
    /\ gwEnv = NoEnv
    /\ gwResp = NoResp
    /\ gwCalls = <<>>
    /\ gwServed = FALSE
    /\ ClMounted

Next ==
    \/ \E t \in ClientTexts : SetText(t)
    \/ \E m \in ModelIds : SelectModel(m)
    \/ \E f \in ClientFiles : HandleFileChange(f)
    \/ \E f \in ClientFiles : PreviewLoads(f)
    \/ \E f \in ClientFiles : PreviewFails(f)
    \/ ClearFile
    \/ HandleAnalyzeFile
    \/ TimerFires
    \/ Tick
    \/ \E i \in 1..MaxInFlight : FetchSettles(i)
    \/ \E i \in 1..MaxInFlight : FetchRejects(i)

Spec == Init /\ [][Next]_vars

(***************************************************************************)
(* Gateway claims.  They speak of the state "done": POST has run on gwReq  *)
(* with the vendors answering as gwEnv, gwResp is its response and gwCalls *)
(* the vendor calls it made.                                               *)
(***************************************************************************)
GwDone == gwPc = "done"
ErrorBody == [error |-> "Failed to count tokens"]
OwnFields == {"fileChars", "model", "gpt4oTokens", "geminiTokens"}

CallsTo(v) == {i \in 1..Len(gwCalls) : gwCalls[i].vendor = v}
PrimaryThrew == CallsTo("anthropic") # {} /\ gwEnv.anthropic.threw
PrimaryReturned == CallsTo("anthropic") # {} /\ ~gwEnv.anthropic.threw

ReqHasFile == gwReq.parses /\ gwReq.multipart /\ "file" \in DOMAIN gwReq.body
ReqDeclares(ft) ==
    gwReq.parses /\ gwReq.multipart /\ "fileType" \in DOMAIN gwReq.body
    /\ gwReq.body.fileType = ft
ReqIsJson == gwReq.parses /\ ~gwReq.multipart
\* a multipart file handled as text: declared text, unknown, or nothing
ReqIsTextFile == ReqHasFile /\ ~ReqDeclares("pdf") /\ ~ReqDeclares("image")
ReqIsTextPayload == ReqIsJson \/ ReqIsTextFile

\* C1: whenever the primary call throws, in any branch, the response is HTTP
\* 500 with body exactly {error: "Failed to count tokens"} and no other field.
C1_PrimaryThrowIs500 ==
    (GwDone /\ PrimaryThrew) =>
        /\ gwResp.status = 500
        /\ gwResp.body = ErrorBody
        /\ DOMAIN gwResp.body = {"error"}

\* the primary call throws after both secondary counts were computed
C1_Witness ==
    /\ GwDone /\ PrimaryThrew
    /\ CallsTo("gpt4o") # {} /\ ~gwEnv.gpt4o.threw
    /\ CallsTo("gemini") # {} /\ ~gwEnv.gemini.threw
    /\ gwResp.status = 500

\* C2: for a text payload a failing GPT-4o encoder or Gemini call yields null
\* in its own field only, the other field keeps its value, and the request
\* returns 200 with the primary count whenever the primary call succeeds.
C2_SecondaryFailuresTolerated ==
    (GwDone /\ ReqIsTextPayload) =>
        /\ CallsTo("anthropic") # {}
        /\ ~gwEnv.anthropic.threw =>
            /\ gwResp.status = 200
            /\ gwResp.body.input_tokens = gwEnv.anthropic.value.input_tokens
            /\ gwResp.body.gpt4oTokens =
                 (IF gwEnv.gpt4o.threw THEN Null ELSE Num(gwEnv.gpt4o.value))
            /\ gwResp.body.geminiTokens =
                 (IF ~geminiKey \/ gwEnv.gemini.threw THEN Null
                  ELSE Num(gwEnv.gemini.value.totalTokens))

\* the encoder fails, Gemini answers: 200 with gpt4oTokens null, geminiTokens set
C2_Witness ==
    /\ GwDone /\ ReqIsTextPayload
    /\ gwEnv.gpt4o.threw /\ ~gwEnv.gemini.threw /\ geminiKey
    /\ gwResp.status = 200
    /\ gwResp.body.gpt4oTokens = Null
    /\ gwResp.body.geminiTokens # Null

\* C3: a multipart request declared pdf (or image) that carries a file never
\* invokes the GPT-4o encoder or Gemini, and its 200 response has
\* gpt4oTokens = null and geminiTokens = null, whatever the vendors would answer.
C3_NoSecondaryForPdfImage ==
    (GwDone /\ ReqHasFile /\ (ReqDeclares("pdf") \/ ReqDeclares("image"))) =>
        /\ CallsTo("gpt4o") = {} /\ CallsTo("gemini") = {}
        /\ gwResp.status = 200 <=> ~gwEnv.anthropic.threw
        /\ gwResp.status = 200 =>
            gwResp.body.gpt4oTokens = Null /\ gwResp.body.geminiTokens = Null

\* a pdf request answered 200 while both secondary vendors were available
C3_Witness ==
    /\ GwDone /\ ReqHasFile /\ ReqDeclares("pdf")
    /\ geminiKey /\ ~gwEnv.gpt4o.threw /\ ~gwEnv.gemini.threw
    /\ gwResp.status = 200
    /\ gwResp.body.geminiTokens = Null

\* C4: multipart with fileType=text and no Gemini credential: no Gemini call,
\* and when the primary call succeeds, 200 with the primary count and
\* geminiTokens = null.
C4_NoGeminiKey ==
    (GwDone /\ ReqDeclares("text") /\ ~geminiKey) =>
        /\ CallsTo("gemini") = {}
        /\ CallsTo("anthropic") # {}
        /\ ~gwEnv.anthropic.threw =>
            /\ gwResp.status = 200
            /\ gwResp.body.input_tokens = gwEnv.anthropic.value.input_tokens
            /\ gwResp.body.geminiTokens = Null

\* a text file counted without the credential, Gemini itself being reachable
C4_Witness ==
    /\ GwDone /\ ReqDeclares("text") /\ ReqHasFile /\ ~geminiKey
    /\ ~gwEnv.gemini.threw
    /\ gwResp.status = 200
    /\ gwResp.body.geminiTokens = Null
    /\ gwResp.body.gpt4oTokens # Null

\* malformed or empty input: an unparseable body, a JSON body whose text is
\* missing or empty, a multipart body with no file
ReqUnparseable == ~gwReq.parses
ReqJsonNoText ==
    ReqIsJson /\ ("text" \in DOMAIN gwReq.body => gwReq.body.text = <<>>)
ReqFormNoFile == gwReq.parses /\ gwReq.multipart /\ "file" \notin DOMAIN gwReq.body
ReqMalformedOrEmpty == ReqUnparseable \/ ReqJsonNoText \/ ReqFormNoFile

\* the text a vendor call was made with (<<-1>> for a document or image block)
CallText(call) ==
    IF call.vendor # "anthropic" THEN call.text
    ELSE IF call.content.type = "text" THEN call.content.text
    ELSE <<-1>>

\* C6 as claimed: malformed or empty input is answered with a success response
\* without calling any vendor, never with an error.
C6_Original_ShortCircuit ==
    (GwDone /\ ReqMalformedOrEmpty) => (gwResp.status = 200 /\ gwCalls = <<>>)

\* C6 as amended: empty input is not short-circuited but counted as the empty
\* text: the primary call is made with text '' (for a JSON body after the
\* GPT-4o encoder and, with the credential, Gemini; for a multipart body with
\* no file alone), giving 200 with fileChars = 0 when it returns and 500
\* {error} when it throws; an unparseable body makes no vendor call and is
\* answered 500 {error}.
C6_EmptyInputIsCounted ==
    (GwDone /\ ReqMalformedOrEmpty) =>
        IF ReqUnparseable
        THEN gwCalls = <<>> /\ gwResp.status = 500 /\ gwResp.body = ErrorBody
        ELSE /\ Cardinality(CallsTo("anthropic")) = 1
             /\ \A i \in 1..Len(gwCalls) : CallText(gwCalls[i]) = <<>>
             /\ IF ReqIsJson
                THEN /\ Cardinality(CallsTo("gpt4o")) = 1
                     /\ Cardinality(CallsTo("gemini")) = (IF geminiKey THEN 1 ELSE 0)
                ELSE Len(gwCalls) = 1
             /\ IF gwEnv.anthropic.threw
                THEN gwResp.status = 500 /\ gwResp.body = ErrorBody
                ELSE /\ gwResp.status = 200
                     /\ gwResp.body.fileChars = 0
                     /\ gwResp.body.input_tokens = gwEnv.anthropic.value.input_tokens

\* a JSON body without text is counted: three vendor calls and a 200
C6_Witness ==
    /\ GwDone /\ ReqIsJson /\ "text" \notin DOMAIN gwReq.body
    /\ Len(gwCalls) = 3
    /\ gwResp.status = 200

\* the model the primary call was made with
PrimaryCallModel == gwCalls[CHOOSE i \in CallsTo("anthropic") : TRUE].model
\* the model the request asks for
RequestedModel ==
    IF "model" \in DOMAIN gwReq.body THEN gwReq.body.model ELSE DEFAULT_MODEL

\* C7: every response is a 200 that contains input_tokens, fileChars, model,
\* gpt4oTokens and geminiTokens, with model the model of the primary call and
\* the gateway's own four values winning over vendor fields of the same
\* name, or a 500 that carries only error.
C7_ResponseShape ==
    GwDone =>
        \/ /\ gwResp.status = 200
           /\ PrimaryReturned
           /\ ({"input_tokens"} \cup OwnFields) \subseteq DOMAIN gwResp.body
           /\ gwResp.body.input_tokens = gwEnv.anthropic.value.input_tokens
           /\ gwResp.body.model = PrimaryCallModel
           /\ gwResp.body.model = RequestedModel
           /\ gwResp.body.fileChars =
                (IF ReqHasFile THEN Len(gwReq.body.file.content) ELSE 0)
           /\ gwResp.body.gpt4oTokens =
                (IF CallsTo("gpt4o") # {} /\ ~gwEnv.gpt4o.threw
                 THEN Num(gwEnv.gpt4o.value) ELSE Null)
           /\ gwResp.body.geminiTokens =
                (IF CallsTo("gemini") # {} /\ ~gwEnv.gemini.threw
                 THEN Num(gwEnv.gemini.value.totalTokens) ELSE Null)
        \/ /\ gwResp.status = 500
           /\ DOMAIN gwResp.body = {"error"}

\* an image request answered 200 from a vendor count that echoes a model,
\* fileChars, gpt4oTokens and geminiTokens of its own
C7_Witness ==
    /\ GwDone /\ ReqHasFile /\ ReqDeclares("image")
    /\ gwResp.status = 200
    /\ OwnFields \subseteq DOMAIN gwEnv.anthropic.value
    /\ gwResp.body.model # gwEnv.anthropic.value.model

\* C8 as claimed: for a multipart file handled as text, fileChars is the
\* character length of the UTF-8-decoded text.
C8_FileCharsIsDecodedLength ==
    (GwDone /\ ReqIsTextFile /\ gwResp.status = 200) =>
        gwResp.body.fileChars = Len(TextDecoderDecode(gwReq.body.file.content))

\* C9: for every multipart request that carries a file, whatever its declared
\* kind, the fileChars of the 200 response is the byte length of the file.
C9_FileCharsIsByteLength ==
    (GwDone /\ ReqHasFile) =>
        /\ gwResp.status = 200 <=> ~gwEnv.anthropic.threw
        /\ gwResp.status = 200 =>
             gwResp.body.fileChars = Len(gwReq.body.file.content)

\* a text file of two bytes that decode to one character: fileChars = 2
C9_Witness ==
    /\ GwDone /\ ReqIsTextFile /\ ReqDeclares("text")
    /\ gwResp.status = 200
    /\ Len(gwReq.body.file.content) = 2
    /\ Len(TextDecoderDecode(gwReq.body.file.content)) = 1
    /\ gwResp.body.fileChars = 2

(***************************************************************************)
(* Client claims.                                                          *)
(***************************************************************************)
Blank(t) == Trim(t) = <<>>
Settled == timers = <<>> /\ inflight = <<>>

\* C5 as claimed: no count request is ever dispatched for an empty or
\* whitespace-only text, and once the text is empty or whitespace-only and
\* the debounce window has elapsed (no timer is pending, no request in
\* flight, no file result on display), the displayed result is
\* tokens = null, chars = 0.
C5_BlankTextShowsNothing ==
    /\ \A i \in 1..Len(inflight) :
          ~inflight[i].multipart => ~Blank(inflight[i].body.text)
    /\ (file = Null /\ stats.fileName = Null /\ Blank(text) /\ Settled) =>
          (stats.tokens = Null /\ stats.chars = 0)

\* a step in which the text request inflight[i] settles with a 2xx response
TextSucceeds(i) ==
    /\ i \in 1..Len(inflight)
    /\ ~inflight[i].multipart
    /\ inflight' = Without(inflight, i)
    /\ error' = Null

\* C10: a JSON text request is answered with fileChars = 0, and when it
\* succeeds the client displays chars = the length of the text submitted in
\* that request, not a value of the response.
C10_TextCharsFromSubmittedText ==
    [][\A i \in 1..MaxInFlight :
          TextSucceeds(i) =>
             /\ stats'.chars = Len(inflight[i].body.text)
             /\ \A env \in ClientEnvs :
                   LET r == POST(inflight[i], env)
                   IN  r.status = 200 => r.body.fileChars = 0]_vars

\* "Hello, world!" was counted: tokens are shown with chars = 13
C10_Witness ==
    /\ stats.tokens # Null
    /\ stats.fileName = Null
    /\ error = Null
    /\ stats.chars = 13
    /\ text = HelloWorld

(***************************************************************************)
(* Debouncing.                                                             *)
(***************************************************************************)
Last(q) == q[Len(q)]
\* a step in which the user edits the text area
TextEdit == text' # text /\ file = Null /\ file' = Null
\* a step in which a request is sent
Dispatches == Len(inflight') = Len(inflight) + 1
\* the pending timeouts of the current debounced function, and of older ones
CurTimers(ts) == SelectSeq(ts, LAMBDA x : x.cur)
OldTimers(ts) == SelectSeq(ts, LAMBDA x : ~x.cur)
TimerFor(t, m) == [text |-> t, model |-> m, due |-> DebounceTicks, cur |-> TRUE]

Settles(i) == i \in 1..Len(inflight) /\ inflight' = Without(inflight, i)
\* request i is no longer the authoritative one: another request was sent
\* after it, or its file has since been cleared or replaced
Superseded(i) ==
    \/ \E j \in (i + 1)..Len(inflight) : inflight[j] # inflight[i]
    \/ inflight[i].multipart /\ file # <<inflight[i].body.file>>

\* C12 as claimed: the late response or failure of a superseded request never
\* overwrites the displayed metrics, neither the result of a newer request
\* nor the empty state set by a later selectFile or clearFile.
C12_StaleResponseIsDropped ==
    [][\A i \in 1..MaxInFlight :
          (Settles(i) /\ Superseded(i)) => stats' = stats]_vars

(***************************************************************************)
(* Input modes.                                                            *)
(***************************************************************************)
\* C13: a selected file implies an empty text; selecting a file clears the
\* text, and the text changes to a non-empty one only with no file selected.
C13_FileExcludesText ==
    /\ [](file # Null => text = <<>>)
    /\ [][/\ (file' # Null /\ file' # file) => text' = <<>>
          /\ (text' # text /\ text' # <<>>) => (file = Null /\ file' = Null)]_vars

\* a file was selected less than 300 ms after a text was typed: the text is
\* gone, its timeout is still pending
C13_Witness ==
    /\ file # Null
    /\ text = <<>>
    /\ timers # <<>>
    /\ inflight = <<>>

\* C14 as claimed: while a file is selected no text count request is sent,
\* so a text typed less than 300 ms before the file was selected never
\* produces a request.
C14_NoTextRequestWhileFileSelected ==
    [][(file # Null /\ Dispatches) => Last(inflight').multipart]_vars

\* C15: the step that clears the file leaves fileType = unknown, no preview
\* and the empty metrics (all counts null, chars = 0, no file name), and
\* leaves text, selected model and error as they were.
C15_ClearFileResets ==
    [][(file # Null /\ file' = Null) =>
          /\ fileType' = "unknown"
          /\ filePreview' = Null
          /\ stats' = EmptyStats
          /\ stats'.fileName = Null
          /\ text' = text
          /\ selectedModel' = selectedModel
          /\ error' = error]_vars

\* a file was counted, the count failed, and the file was cleared: the error
\* message is still there
C15_Witness ==
    /\ file = Null
    /\ fileType = "unknown"
    /\ stats = EmptyStats
    /\ error = <<"Failed to analyze file. Please try again.">>
    /\ inflight = <<>>
    /\ inputs = 3

\* C16: a change of the selected model while a file is selected sends no
\* request, schedules none, and leaves file, fileType and the displayed
\* metrics as they were; a file request carries the file and the model that
\* are selected when it is sent.
C16_ModelChangeWithFile ==
    [][/\ (selectedModel' # selectedModel /\ file # Null) =>
             /\ file' = file
             /\ fileType' = fileType
             /\ stats' = stats
             /\ inflight' = inflight
             /\ Len(timers') = Len(timers)
       /\ (Dispatches /\ Last(inflight').multipart) =>
             /\ file # Null
             /\ Last(inflight').body.file = file[1]
             /\ Last(inflight').body.fileType = fileType
             /\ Last(inflight').body.model = selectedModel]_vars

\* a file is selected, another model than the first is selected, and the
\* file has been submitted with that model
C16_Witness ==
    /\ file # Null
    /\ selectedModel # DEFAULT_MODEL
    /\ inputs = 3
    /\ Len(inflight) = 1
    /\ inflight[1].multipart
    /\ inflight[1].body.model = selectedModel

(***************************************************************************)
(* Errors and displayed counts.                                            *)
(***************************************************************************)
TextError == <<"Failed to analyze text. Please try again.">>
FileError == <<"Failed to analyze file. Please try again.">>

\* C17: a request settles either with success (no error, a token count) or
\* with failure: then one of the two fixed messages is set, the three counts
\* are null, and chars is the length of the submitted text for a text request
\* and 0 for a file request.  No other error message is ever displayed.
C17_ErrorPolicy ==
    /\ [](error \in {Null, TextError, FileError})
    /\ [][\A i \in 1..MaxInFlight :
             Settles(i) =>
                \/ error' = Null /\ stats'.tokens # Null
                \/ /\ stats'.tokens = Null
                   /\ stats'.gpt4oTokens = Null
                   /\ stats'.geminiTokens = Null
                   /\ IF inflight[i].multipart
                      THEN error' = FileError /\ stats'.chars = 0
                      ELSE /\ error' = TextError
                           /\ stats'.chars = Len(inflight[i].body.text)]_vars

\* the count of "Hello, world!" failed: the message is shown, chars is 13
C17_Witness ==
    /\ error = TextError
    /\ stats.tokens = Null
    /\ stats.chars = 13
    /\ text = HelloWorld
    /\ inflight = <<>>

Max(a, b) == IF a >= b THEN a ELSE b

\* C18: the displayed primary count is null or an integer >= 0, and when a
\* request succeeds, text or file, it is max(input_tokens - 7, 0) for the
\* input_tokens of a 200 response to that request.
C18_TokensNeverNegative ==
    /\ [](stats.tokens = Null \/ stats.tokens[1] >= 0)
    /\ [][\A i \in 1..MaxInFlight :
             (Settles(i) /\ error' = Null) =>
                \E env \in ClientEnvs :
                   LET r == POST(inflight[i], env)
                   IN  /\ r.status = 200
                       /\ stats'.tokens = Num(Max(r.body.input_tokens - 7, 0))]_vars

\* a file was counted with input_tokens = 5: the displayed count is 0
C18_Witness ==
    /\ stats.tokens = Num(0)
    /\ stats.fileName # Null
    /\ error = Null
    /\ file # Null
    /\ inflight = <<>>

(***************************************************************************)
(* Startup and statelessness of the gateway.                               *)
(***************************************************************************)
\* C19: without ANTHROPIC_API_KEY the module load fails and no request is
\* ever received or answered; with it the module loads, whether or not
\* GEMINI_API_KEY is set.  Without GEMINI_API_KEY alone requests are handled
\* as usual (200 exactly when the body parses and the primary call returns,
\* the GPT-4o count still made for a text payload), Gemini is never called
\* and geminiTokens is null.
C19_StartupCredentials ==
    /\ [](~anthropicKey =>
             /\ gwPc \in {"load", "failed"}
             /\ gwReq = NoReq /\ gwResp = NoResp /\ gwCalls = <<>>)
    /\ [](gwPc = "failed" => ~anthropicKey)
    /\ []((GwDone /\ ~geminiKey) =>
             /\ anthropicKey
             /\ CallsTo("gemini") = {}
             /\ gwResp.status = 200 <=> (gwReq.parses /\ PrimaryReturned)
             /\ gwResp.status = 200 =>
                   /\ gwResp.body.geminiTokens = Null
                   /\ (ReqIsTextPayload /\ ~gwEnv.gpt4o.threw) =>
                         gwResp.body.gpt4oTokens = Num(gwEnv.gpt4o.value))
    /\ [][gwPc = "load" =>
             gwPc' = IF anthropicKey THEN "idle" ELSE "failed"]_vars

\* the module was loaded without ANTHROPIC_API_KEY and has thrown
C19_Witness ==
    /\ gwPc = "failed"
    /\ ~anthropicKey
    /\ gwReq = NoReq

C21_OnePendingDispatchForLatestInput ==
    /\ Len(timers) <= 1
    /\ \A i \in 1..Len(timers) :
          /\ file = Null
          /\ timers[i].model = selectedModel

(***************************************************************************)
(* Order and number of the gateway's vendor calls.                         *)
(***************************************************************************)
\* C22: for a text payload the calls of the request are, in this order, the
\* GPT-4o encoding, the Gemini count (when the credential is set) and then
\* the primary call, which is the last call and the only primary one; the
\* response carries what the secondary calls gave.  A request whose body
\* does not parse makes no primary call.
C22_PrimaryAfterSecondaries ==
    /\ (GwDone /\ ReqIsTextPayload) =>
          /\ Len(gwCalls) = (IF geminiKey THEN 3 ELSE 2)
          /\ gwCalls[1].vendor = "gpt4o"
          /\ geminiKey => gwCalls[2].vendor = "gemini"
          /\ CallsTo("anthropic") = {Len(gwCalls)}
          /\ gwResp.status = 200 =>
                /\ gwResp.body.gpt4oTokens =
                      (IF gwEnv.gpt4o.threw THEN Null ELSE Num(gwEnv.gpt4o.value))
                /\ gwResp.body.geminiTokens =
                      (IF gwEnv.gemini.threw \/ ~geminiKey THEN Null
                       ELSE Num(gwEnv.gemini.value.totalTokens))
    /\ (GwDone /\ ReqUnparseable) => CallsTo("anthropic") = {}

\* a text payload for which both secondary calls failed and the primary
\* call, made third, returned
C22_Witness ==
    /\ GwDone
    /\ ReqIsTextPayload
    /\ Len(gwCalls) = 3
    /\ gwEnv.gpt4o.threw /\ gwEnv.gemini.threw
    /\ gwCalls[3].vendor = "anthropic"
    /\ gwResp.status = 200

\* C23: a multipart request with a file makes exactly one primary call, its
\* last call, whose content is chosen by the declared fileType alone: a PDF
\* document block for pdf, an image block for image, and for any other or no
\* fileType the text decoded from the bytes as UTF-8.  No request makes more
\* than one primary call.
C23_DispatchByDeclaredType ==
    /\ GwDone => Cardinality(CallsTo("anthropic")) <= 1
    /\ (GwDone /\ ReqHasFile) =>
          /\ CallsTo("anthropic") = {Len(gwCalls)}
          /\ LET call == gwCalls[Len(gwCalls)]
                 bytes == gwReq.body.file.content
             IN  IF ReqDeclares("pdf")
                 THEN /\ call.content =
                            [type |-> "document", media_type |-> ApplicationPdf,
                             data |-> Base64(bytes)]
                      /\ "pdfs-2024-09-25" \in call.betas
                 ELSE IF ReqDeclares("image")
                 THEN /\ call.content.type = "image"
                      /\ call.content.data = Base64(bytes)
                 ELSE call.content =
                         [type |-> "text", text |-> TextDecoderDecode(bytes)]

\* a PNG file sent without any fileType is counted as text
C23_Witness ==
    /\ GwDone
    /\ ReqHasFile
    /\ "fileType" \notin DOMAIN gwReq.body
    /\ gwReq.body.file.type = ImagePng
    /\ gwCalls[Len(gwCalls)].content.type = "text"
    /\ gwResp.status = 200

(***************************************************************************)
(* What the client displays.                                               *)
(***************************************************************************)
\* C24 as claimed: isProcessing is true exactly when at least one request is
\* in flight.
C24_ProcessingIffInFlight == isProcessing <=> inflight # <<>>

\* C25 as claimed: filePreview is non-null only if an image file is selected
\* and the preview was produced from that file.
C25_PreviewOfSelectedFile ==
    filePreview # Null =>
        /\ file # Null
        /\ fileType = "image"
        /\ filePreview[1] = DataUrl(file[1])

\* C26 as claimed: selecting another model never leaves a count of the
\* previous model displayed under the new model's name: a count still
\* displayed after the change has its recount with the new model scheduled.
C26_Original_CountFollowsModel ==
    [][(selectedModel' # selectedModel /\ stats'.tokens # Null) =>
          CurTimers(timers') = <<TimerFor(text, selectedModel')>>]_vars

\* C26: selecting another model leaves the displayed metrics as they are and
\* sends nothing; with a non-empty text and no file it schedules one count of
\* that text with the new model, 300 ms later; with a file selected or an
\* empty text it schedules nothing, so the displayed count stays the one of
\* the previous model.
C26_ModelChangeRecountsTextOnly ==
    [][selectedModel' # selectedModel =>
          /\ stats' = stats
          /\ inflight' = inflight
          /\ OldTimers(timers') = NewDebounced(timers)
          /\ IF file = Null /\ text # <<>>
             THEN CurTimers(timers') = <<TimerFor(text, selectedModel')>>
             ELSE CurTimers(timers') = <<>>]_vars

\* the text 'a' was counted, then another model was selected: the count is
\* still displayed and the recount is scheduled
C26_Witness ==
    /\ inputs = 2
    /\ file = Null
    /\ text = <<97>>
    /\ selectedModel # DEFAULT_MODEL
    /\ stats.tokens # Null
    /\ timers = <<TimerFor(text, selectedModel)>>
    /\ inflight = <<>>

\* C27: while an error message is displayed the three counts are null, and
\* every step that stores a non-null token count leaves no error message.
C27_ErrorImpliesNoCounts ==
    /\ [](error # Null =>
             /\ stats.tokens = Null
             /\ stats.gpt4oTokens = Null
             /\ stats.geminiTokens = Null)
    /\ [][(stats' # stats /\ stats'.tokens # Null) => error' = Null]_vars

\* of two requests in flight one has failed: its message is displayed, the
\* counts are null, and the other request is still to settle
C27_Witness ==
    /\ error = TextError
    /\ stats.tokens = Null
    /\ stats.gpt4oTokens = Null
    /\ stats.geminiTokens = Null
    /\ Len(inflight) = 1

=============================================================================
